---- MODULE Spec2Model ----
(***************************************************************************)
(* Model of userena/models.py: the UserenaSignup account record            *)
(* (change_email, send_confirmation_email, activation_key_expired,         *)
(* send_activation_email) and the UserenaBaseProfile record                *)
(* (get_mugshot_url, can_view_profile).                                    *)
(*                                                                         *)
(* Strings that are compared with computed hashes are written as tuples of *)
(* their parts: the blank string is <<>>, a literal is <<"literal">>, a    *)
(* sha1 digest is <<"sha1", salt, seed>>.                                  *)
(*                                                                         *)
(* A request works on an instance it loaded earlier, so several instances  *)
(* of the one row exist at a time, each possibly stale; they are kept as a *)
(* bag, since which request holds which instance changes nothing. A method *)
(* call is one step: the assignments before save() and the mails after it  *)
(* touch nothing another request reads, so only the order of loads and     *)
(* saves matters. The order of the statements inside a method is kept in   *)
(* the log of the call.                                                    *)
(*                                                                         *)
(* Spec has every operation on the account; SpecExpiry the expiry check    *)
(* over every join day and window; SpecEmail the email change alone;       *)
(* SpecProfile the profile.                                                *)
(***************************************************************************)
EXTENDS Integers, Sequences, Bags

\* ------------------------------------------------------------------ bounds
MaxTime == 3        \* the clock runs over the days 0..MaxTime
MaxStamp == 1       \* the clock's range while email changes are raced
MaxJoin == 1        \* user.date_joined is drawn from 0..MaxJoin
MaxWindow == 2      \* USERENA_ACTIVATION_DAYS is drawn from 1..MaxWindow
MaxSalt == 2        \* the random salt of generate_sha1 is drawn from 1..MaxSalt
NumReq == 2         \* requests that may hold a loaded instance at the same time

Salts == 1..MaxSalt
Emails == {"new@x.com", "newer@x.com"}
Username == "alice"
UserEmail == "old@x.com"
Blank == <<>>
NoTime == 0 - 1

\* ------------------------------------------------------- settings, helpers
USERENA_ACTIVATED == <<"ALREADY_ACTIVATED">>

\* userena.utils.generate_sha1: a random salt, and the sha1 of salt + string.
generate_sha1(string, salt) == <<salt, <<"sha1", salt, string>>>>

VARIABLES
    now,                      \* datetime.datetime.now(), in days
    date_joined,              \* user.date_joined
    USERENA_ACTIVATION_DAYS,  \* the configured activation window
    db,                       \* the stored UserenaSignup row
    held,                     \* the instances requests have loaded, as a bag
    last,                     \* the most recent method call: its inputs
                              \*   (args), whether its instance differed
                              \*   from the row (raced), result and log
    prior,                    \* confirmation keys stored before the last save
    everExpired,              \* some activation_key_expired call gave True
    profile, grants, MUGSHOT_GRAVATAR, MUGSHOT_DEFAULT, view, mug

avars == <<now, date_joined, USERENA_ACTIVATION_DAYS, db, held, last,
           prior, everExpired>>
pvars == <<profile, grants, MUGSHOT_GRAVATAR, MUGSHOT_DEFAULT, view, mug>>
vars == <<avars, pvars>>

\* The row UserenaManager.create_inactive_user stores at signup.
NewSignup(salt) ==
    [activation_key |-> generate_sha1(Username, salt)[2],
     email_unconfirmed |-> "",
     email_confirmation_key |-> Blank,
     email_confirmation_key_created |-> NoTime]

NoArgs == <<"", Blank, NoTime>>
NoCall == [op |-> "none", args |-> NoArgs, raced |-> FALSE, val |-> FALSE,
           log |-> <<>>]
Call(op, log) == [NoCall EXCEPT !.op = op, !.log = log]

\* --------------------------------------------------------- UserenaSignup
\* Variant: the window compared with > in place of >=.
activation_key_expired_strict(inst, t) ==
    inst.activation_key = USERENA_ACTIVATED
        \/ t > date_joined + USERENA_ACTIVATION_DAYS

\* activation_key_expired (models.py 163-181), on instance `inst` at time t.
activation_key_expired(inst, t) ==
    LET expiration_days == USERENA_ACTIVATION_DAYS
        expiration_date == date_joined + expiration_days
    IN  IF inst.activation_key = USERENA_ACTIVATED THEN TRUE
        ELSE IF t >= expiration_date THEN TRUE
        ELSE FALSE

\* Variant: a save that writes the address and the key but not the timestamp.
save_changed(inst) ==
    [db EXCEPT !.email_unconfirmed = inst.email_unconfirmed,
               !.email_confirmation_key = inst.email_confirmation_key]

\* Model.save(): the whole row is written from the instance.
save(inst) == inst

\* change_email, lines 104-108: the assignments to the loaded instance.
change_email_assign(inst, email, salt, t) ==
    [inst EXCEPT !.email_unconfirmed = email,
                 !.email_confirmation_key = generate_sha1(Username, salt)[2],
                 !.email_confirmation_key_created = t]

\* Variant: send_mail called with fail_silently, so a failed delivery to the
\* old address does not raise.
flow_fail_silently(op, at, ok) ==
    CASE at = "call" -> (IF op = "change_email" THEN "save"
                         ELSE IF op = "send_confirmation_email" THEN "send_old"
                         ELSE "send_activation")
      [] at = "save" -> "send_old"
      [] at = "send_old" -> "send_new"
      [] at = "send_new" -> (IF ok THEN "return" ELSE "raise")
      [] at = "send_activation" -> (IF ok THEN "return" ELSE "raise")

\* Variant: change_email sending the mails before it saves.
flow_send_first(op, at, ok) ==
    CASE at = "call" -> (IF op = "send_activation_email" THEN "send_activation"
                         ELSE "send_old")
      [] at = "save" -> "return"
      [] at = "send_old" -> (IF ok THEN "send_new" ELSE "raise")
      [] at = "send_new" -> (IF ~ok THEN "raise"
                             ELSE IF op = "change_email" THEN "save"
                             ELSE "return")
      [] at = "send_activation" -> (IF ok THEN "return" ELSE "raise")

\* Where a method goes after its step `at` ended with outcome ok: the
\* statement order of change_email (104-112), send_confirmation_email
\* (126-161) and send_activation_email (192-211). send_mail raises on a
\* failed delivery and neither method catches it.
flow(op, at, ok) ==
    CASE at = "call" -> (IF op = "change_email" THEN "save"
                         ELSE IF op = "send_confirmation_email" THEN "send_old"
                         ELSE "send_activation")
      [] at = "save" -> "send_old"
      [] at = "send_old" -> (IF ok THEN "send_new" ELSE "raise")
      [] at = "send_new" -> (IF ok THEN "return" ELSE "raise")
      [] at = "send_activation" -> (IF ok THEN "return" ELSE "raise")

\* The steps method `op` takes from `at` on, each with its outcome, ending
\* in "return" or "raise"; oks[step] is whether that step's mail is delivered.
RECURSIVE run(_, _, _)
run(op, at, oks) ==
    LET ok == IF at \in DOMAIN oks THEN oks[at] ELSE TRUE
        next == flow(op, at, ok)
    IN  IF at \in {"return", "raise"} THEN <<at>>
        ELSE <<at, ok>> \o run(op, next, oks)

\* Whether the log holds step `at` with outcome ok: steps sit at the odd
\* places, each followed by its outcome.
Did(log, at, ok) ==
    \E i \in DOMAIN log : i % 2 = 1 /\ i < Len(log) /\ log[i] = at /\ log[i + 1] = ok
Attempted(log, at) == Did(log, at, TRUE) \/ Did(log, at, FALSE)
Raised(log) == log # <<>> /\ log[Len(log)] = "raise"

Triple(row) == <<row.email_unconfirmed, row.email_confirmation_key,
                 row.email_confirmation_key_created>>

AInit ==
    /\ now = 0
    /\ db = NewSignup(1)
    /\ held = EmptyBag
    /\ last = NoCall
    /\ prior = {}
    /\ everExpired = FALSE

\* ---------------------------------------------------- UserenaBaseProfile
PROFILE_PERMISSIONS ==
    {"add_profile", "change_profile", "delete_profile", "view_profile"}
PRIVACY_CHOICES == {"open", "registered", "closed"}
\* Viewers: django's AnonymousUser, which is no User instance, and two Users.
Viewers == {"AnonymousUser", "alice", "bob"}
isinstance_User(user) == user # "AnonymousUser"
\* Permissions the model lets guardian hold for a viewer on the profile.
Assignable == {"view_profile", "change_profile"}
Mugshots == {"", "mugshots/0a1b2c3d4e.jpg"}
Defaults == {"404", "mm", "identicon", "monsterid", "wavatar",
             "/static/img/default.png"}

\* guardian.shortcuts.get_perms(user, obj)
get_perms(user, obj) == {p \in PROFILE_PERMISSIONS : <<user, p>> \in grants}

\* userena.utils.get_gravatar(email, size, default)
get_gravatar(email, size, default) == <<"gravatar", email, size, default>>

\* Variant: the default returned without the check for Gravatar's keywords.
get_mugshot_url_any_default(self) ==
    IF self.mugshot # "" THEN <<"MEDIA_URL", self.mugshot>>
    ELSE IF MUGSHOT_GRAVATAR
         THEN get_gravatar(UserEmail, "USERENA_MUGSHOT_SIZE", MUGSHOT_DEFAULT)
    ELSE <<MUGSHOT_DEFAULT>>

\* get_mugshot_url (models.py 267-297); None is <<>>, a string s is <<s>>.
get_mugshot_url(self) ==
    IF self.mugshot # "" THEN <<"MEDIA_URL", self.mugshot>>
    ELSE IF MUGSHOT_GRAVATAR
         THEN get_gravatar(UserEmail, "USERENA_MUGSHOT_SIZE", MUGSHOT_DEFAULT)
    ELSE IF MUGSHOT_DEFAULT \notin {"404", "mm", "identicon", "monsterid", "wavatar"}
         THEN <<MUGSHOT_DEFAULT>>
    ELSE <<>>

\* Variant: "registered" without the isinstance check.
can_view_profile_any_viewer(self, user) ==
    IF self.privacy \in {"open", "registered"}
    THEN [val |-> TRUE, get_perms_calls |-> 0]
    ELSE IF "view_profile" \in get_perms(user, self)
         THEN [val |-> TRUE, get_perms_calls |-> 1]
    ELSE [val |-> FALSE, get_perms_calls |-> 1]

\* Variant: guardian asked first, the privacy level after.
can_view_profile_perms_first(self, user) ==
    IF "view_profile" \in get_perms(user, self)
    THEN [val |-> TRUE, get_perms_calls |-> 1]
    ELSE IF self.privacy = "open" THEN [val |-> TRUE, get_perms_calls |-> 1]
    ELSE IF self.privacy = "registered" /\ isinstance_User(user)
         THEN [val |-> TRUE, get_perms_calls |-> 1]
    ELSE [val |-> FALSE, get_perms_calls |-> 1]

\* can_view_profile (models.py 299-342): the result, and how many times
\* get_perms was called to reach it.
can_view_profile(self, user) ==
    IF self.privacy = "open" THEN [val |-> TRUE, get_perms_calls |-> 0]
    ELSE IF self.privacy = "registered" /\ isinstance_User(user)
         THEN [val |-> TRUE, get_perms_calls |-> 0]
    ELSE IF "view_profile" \in get_perms(user, self)
         THEN [val |-> TRUE, get_perms_calls |-> 1]
    ELSE [val |-> FALSE, get_perms_calls |-> 1]

NoView == [op |-> "none", user |-> "", val |-> FALSE, get_perms_calls |-> 0]
NoMug == [op |-> "none", val |-> <<>>]

PInit ==
    /\ profile = [mugshot |-> "", privacy |-> "registered"]
    /\ grants = {}
    /\ MUGSHOT_GRAVATAR = TRUE
    /\ MUGSHOT_DEFAULT = "identicon"
    /\ view = NoView
    /\ mug = NoMug

\* The owner saves another privacy level; earlier answers are forgotten.
SetPrivacy(p) ==
    /\ profile' = [profile EXCEPT !.privacy = p]
    /\ view' = NoView
    /\ mug' = NoMug
    /\ UNCHANGED <<grants, MUGSHOT_GRAVATAR, MUGSHOT_DEFAULT, avars>>

\* The owner uploads or clears the mugshot.
SetMugshot(m) ==
    /\ profile' = [profile EXCEPT !.mugshot = m]
    /\ view' = NoView
    /\ mug' = NoMug
    /\ UNCHANGED <<grants, MUGSHOT_GRAVATAR, MUGSHOT_DEFAULT, avars>>

\* guardian's assign(perm, user, profile).
Assign(user, perm) ==
    /\ grants' = grants \cup {<<user, perm>>}
    /\ view' = NoView
    /\ mug' = NoMug
    /\ UNCHANGED <<profile, MUGSHOT_GRAVATAR, MUGSHOT_DEFAULT, avars>>

\* guardian's remove_perm(perm, user, profile).
RemovePerm(user, perm) ==
    /\ <<user, perm>> \in grants
    /\ grants' = grants \ {<<user, perm>>}
    /\ view' = NoView
    /\ mug' = NoMug
    /\ UNCHANGED <<profile, MUGSHOT_GRAVATAR, MUGSHOT_DEFAULT, avars>>

\* profile.can_view_profile(user)
CanViewProfile(user) ==
    /\ LET got == can_view_profile(profile, user)
       IN  view' = [op |-> "can_view_profile", user |-> user, val |-> got.val,
                    get_perms_calls |-> got.get_perms_calls]
    /\ UNCHANGED <<profile, grants, MUGSHOT_GRAVATAR, MUGSHOT_DEFAULT, mug, avars>>

\* profile.get_mugshot_url()
GetMugshotUrl ==
    /\ mug' = [op |-> "get_mugshot_url", val |-> get_mugshot_url(profile)]
    /\ UNCHANGED <<profile, grants, MUGSHOT_GRAVATAR, MUGSHOT_DEFAULT, view, avars>>

\* The clock advances, up to day `end`.
Tick(end) ==
    /\ now < end
    /\ now' = now + 1
    /\ UNCHANGED <<date_joined, USERENA_ACTIVATION_DAYS, db, held, last,
                   prior, everExpired, pvars>>

\* A request loads the row into an instance of its own.
Load ==
    /\ BagCardinality(held) < NumReq
    /\ held' = held (+) SetToBag({db})
    /\ UNCHANGED <<now, date_joined, USERENA_ACTIVATION_DAYS, db, last, prior,
                   everExpired, pvars>>

\* The request holding `self` ends and its instance is dropped.
Release(self) ==
    /\ held' = held (-) SetToBag({self})
    /\ UNCHANGED <<now, date_joined, USERENA_ACTIVATION_DAYS, db, last, prior,
                   everExpired, pvars>>

\* The activation done by UserenaManager.activate_user: the presented key
\* matches the stored one and is not expired; the stored key becomes the
\* sentinel.
Activate ==
    /\ db.activation_key # USERENA_ACTIVATED
    /\ ~activation_key_expired(db, now)
    /\ db' = [db EXCEPT !.activation_key = USERENA_ACTIVATED]
    /\ UNCHANGED <<now, date_joined, USERENA_ACTIVATION_DAYS, held, last,
                   prior, everExpired, pvars>>

\* self.activation_key_expired()
ActivationKeyExpired(self) ==
    /\ LET v == activation_key_expired(self, now)
       IN  /\ last' = [Call("activation_key_expired", <<"return">>) EXCEPT
                          !.args = <<"", self.activation_key, now>>,
                          !.val = v, !.raced = (self # db)]
           /\ everExpired' = (everExpired \/ v)
    /\ UNCHANGED <<now, date_joined, USERENA_ACTIVATION_DAYS, db, held, prior,
                   pvars>>

\* self.change_email(email), with send_confirmation_email inside it; okOld
\* and okNew are whether the two mails are delivered.
ChangeEmail(self, email, salt, okOld, okNew) ==
    /\ LET inst == change_email_assign(self, email, salt, now)
           path == run("change_email", "call",
                       [send_old |-> okOld, send_new |-> okNew])
           saved == Did(path, "save", TRUE)
       IN  /\ held' = (held (-) SetToBag({self})) (+) SetToBag({inst})
           /\ db' = IF saved THEN save(inst) ELSE db
           /\ prior' = IF saved /\ db.email_confirmation_key # Blank
                       THEN prior \cup {db.email_confirmation_key} ELSE prior
           /\ last' = [Call("change_email", path) EXCEPT
                          !.args = <<email, generate_sha1(Username, salt)[2], now>>,
                          !.raced = (self # db)]
    /\ UNCHANGED <<now, date_joined, USERENA_ACTIVATION_DAYS, everExpired,
                   pvars>>

\* self.send_confirmation_email() called on its own.
SendConfirmationEmail(self, okOld, okNew) ==
    /\ last' = Call("send_confirmation_email",
                     run("send_confirmation_email", "call",
                         [send_old |-> okOld, send_new |-> okNew]))
    /\ UNCHANGED <<now, date_joined, USERENA_ACTIVATION_DAYS, db, held,
                   prior, everExpired, pvars>>

\* self.send_activation_email()
SendActivationEmail(self, ok) ==
    /\ last' = Call("send_activation_email",
                     run("send_activation_email", "call",
                         [send_activation |-> ok]))
    /\ UNCHANGED <<now, date_joined, USERENA_ACTIVATION_DAYS, db, held,
                   prior, everExpired, pvars>>

Held == BagToSet(held)

\* The account with the operations that write or send.
Init ==
    /\ AInit
    /\ PInit
    /\ date_joined = 0
    /\ USERENA_ACTIVATION_DAYS = MaxWindow

Next ==
    \/ Tick(MaxStamp)
    \/ Activate
    \/ Load
    \/ \E self \in Held : Release(self)
    \/ \E self \in Held : ActivationKeyExpired(self)
    \/ \E self \in Held, email \in Emails, salt \in Salts, okOld, okNew \in BOOLEAN :
          ChangeEmail(self, email, salt, okOld, okNew)
    \/ \E self \in Held, okOld, okNew \in BOOLEAN : SendConfirmationEmail(self, okOld, okNew)
    \/ \E self \in Held, ok \in BOOLEAN : SendActivationEmail(self, ok)

Spec == Init /\ [][Next]_vars

\* The expiry check over every join time and activation window.
InitExpiry ==
    /\ AInit
    /\ PInit
    /\ date_joined \in 0..MaxJoin
    /\ USERENA_ACTIVATION_DAYS \in 1..MaxWindow

NextExpiry ==
    \/ Tick(MaxTime)
    \/ Activate
    \/ Load
    \/ \E self \in Held : Release(self)
    \/ \E self \in Held : ActivationKeyExpired(self)

SpecExpiry == InitExpiry /\ [][NextExpiry]_vars

\* The email change alone: requests racing through change_email.
NextEmail ==
    \/ Tick(MaxStamp)
    \/ Load
    \/ \E self \in Held : Release(self)
    \/ \E self \in Held, email \in Emails, salt \in Salts, okOld, okNew \in BOOLEAN :
          ChangeEmail(self, email, salt, okOld, okNew)
    \/ \E self \in Held, okOld, okNew \in BOOLEAN : SendConfirmationEmail(self, okOld, okNew)

SpecEmail == Init /\ [][NextEmail]_vars

\* The profile under every configuration of the mugshot settings.
InitProfile ==
    /\ AInit
    /\ date_joined = 0
    /\ USERENA_ACTIVATION_DAYS = MaxWindow
    /\ profile \in [mugshot : {""}, privacy : PRIVACY_CHOICES]
    /\ grants = {}
    /\ MUGSHOT_GRAVATAR \in BOOLEAN
    /\ MUGSHOT_DEFAULT \in Defaults
    /\ view = NoView
    /\ mug = NoMug

NextProfile ==
    \/ \E p \in PRIVACY_CHOICES : SetPrivacy(p)
    \/ \E m \in Mugshots : SetMugshot(m)
    \/ \E user \in Viewers, perm \in Assignable : Assign(user, perm)
    \/ \E user \in Viewers, perm \in Assignable : RemovePerm(user, perm)
    \/ \E user \in Viewers : CanViewProfile(user)
    \/ GetMugshotUrl

SpecProfile == InitProfile /\ [][NextProfile]_vars

\* ------------------------------------------------------------ properties
ExpiredCalled == last.op = "activation_key_expired"
ChangeEmailCalled == last.op = "change_email"
ConfirmationSent == last.op \in {"change_email", "send_confirmation_email"}
Pending(row) == row.activation_key # USERENA_ACTIVATED

\* A step that is a call of method `op`.
CallOf(op) == last' # last /\ last'.op = op

\* C1: activation_key_expired returns True exactly when the instance's key
\* is the sentinel or now >= date_joined + USERENA_ACTIVATION_DAYS, and the
\* call leaves the stored row and every loaded instance as they were.
C1_ExpiredIff ==
    /\ [](ExpiredCalled =>
            (last.val <=> (\/ last.args[2] = USERENA_ACTIVATED
                           \/ last.args[3] >= date_joined + USERENA_ACTIVATION_DAYS)))
    /\ [][CallOf("activation_key_expired") => (db' = db /\ held' = held)]_vars

\* A pending key checked on the very day the window ends: expired.
C1_AtBoundary ==
    /\ ExpiredCalled
    /\ last.val
    /\ last.args[2] # USERENA_ACTIVATED
    /\ last.args[3] = date_joined + USERENA_ACTIVATION_DAYS
    /\ USERENA_ACTIVATION_DAYS = 2

C5_KeyMonotonic ==
    [][~Pending(db) => ~Pending(db')]_vars

\* C6 as stated: when the mail to the old address fails, the mail to the new
\* address is still attempted.
C6_NewStillAttempted ==
    (ConfirmationSent /\ Did(last.log, "send_old", FALSE)) =>
        Attempted(last.log, "send_new")

\* C6, amended: a failed mail to the old address raises and the mail to the
\* new address is not attempted; the mail to the new address is attempted
\* exactly when the one to the old address was delivered.
C6_NewOnlyAfterOld ==
    ConfirmationSent =>
        /\ Attempted(last.log, "send_old")
        /\ Attempted(last.log, "send_new") <=> Did(last.log, "send_old", TRUE)
        /\ Did(last.log, "send_old", FALSE) => Raised(last.log)

\* A change_email whose mail to the old address failed.
C6_OldFailed ==
    /\ ChangeEmailCalled
    /\ Did(last.log, "send_old", FALSE)
    /\ Raised(last.log)

\* C7: change_email saves before it attempts any mail, and when it ends
\* with a delivery error the stored row holds the address, key and
\* timestamp of that call.
C7_PersistedBeforeSend ==
    ChangeEmailCalled =>
        /\ \A i \in DOMAIN last.log :
              (i % 2 = 1 /\ last.log[i] \in {"send_old", "send_new"}) =>
                  \E j \in 1..(i - 1) :
                      j % 2 = 1 /\ last.log[j] = "save" /\ last.log[j + 1] = TRUE
        /\ Raised(last.log) => Triple(db) = last.args

\* A change_email that failed at the second mail, after an earlier change.
C7_SecondMailFailed ==
    /\ ChangeEmailCalled
    /\ Did(last.log, "send_old", TRUE)
    /\ Did(last.log, "send_new", FALSE)
    /\ Raised(last.log)
    /\ prior # {}

\* C8: once activation_key_expired has returned True, every later call
\* returns True.
C8_ExpiredStays ==
    [][(everExpired /\ CallOf("activation_key_expired")) => last'.val]_vars

\* C9: after racing change_email calls the stored address, key and
\* timestamp are the three values of the call that saved last.
C9_LastWriteWins ==
    (ChangeEmailCalled /\ Did(last.log, "save", TRUE)) => Triple(db) = last.args

\* Two requests loaded the row, one saved its change, and then the other,
\* from its stale instance, saved a change that differs in every field.
C9_Raced ==
    /\ ChangeEmailCalled
    /\ last.raced
    /\ \E other \in Held :
          /\ other.email_confirmation_key \in prior
          /\ other.email_unconfirmed # db.email_unconfirmed
          /\ other.email_confirmation_key # db.email_confirmation_key
          /\ other.email_confirmation_key_created # db.email_confirmation_key_created

CanViewCalled == view.op = "can_view_profile"
Granted(user) == <<user, "view_profile">> \in grants
ShortCircuit(user) ==
    \/ profile.privacy = "open"
    \/ profile.privacy = "registered" /\ isinstance_User(user)

\* C3: can_view_profile is True exactly when the profile is open, or it is
\* registered and the viewer is a User, or the viewer holds view_profile.
C3_CanViewIff ==
    CanViewCalled => (view.val <=> (ShortCircuit(view.user) \/ Granted(view.user)))

\* A closed profile seen by a viewer who holds the grant.
C3_ClosedWithGrant ==
    /\ CanViewCalled
    /\ profile.privacy = "closed"
    /\ Granted(view.user)
    /\ view.val

GravatarKeywords == {"404", "mm", "identicon", "monsterid", "wavatar"}

\* C4: get_mugshot_url gives the stored image, else the Gravatar, else the
\* configured default unless it is one of Gravatar's keywords, else None.
C4_FallbackChain ==
    mug.op = "get_mugshot_url" =>
        mug.val = (CASE profile.mugshot # "" -> <<"MEDIA_URL", profile.mugshot>>
                     [] profile.mugshot = "" /\ MUGSHOT_GRAVATAR ->
                            get_gravatar(UserEmail, "USERENA_MUGSHOT_SIZE", MUGSHOT_DEFAULT)
                     [] profile.mugshot = "" /\ ~MUGSHOT_GRAVATAR
                            /\ MUGSHOT_DEFAULT \in GravatarKeywords -> <<>>
                     [] OTHER -> <<MUGSHOT_DEFAULT>>)

\* No stored image, Gravatar off, default "identicon": None.
C4_IdenticonGivesNone ==
    /\ mug.op = "get_mugshot_url"
    /\ profile.mugshot = ""
    /\ ~MUGSHOT_GRAVATAR
    /\ MUGSHOT_DEFAULT = "identicon"
    /\ mug.val = <<>>

\* C10: can_view_profile calls get_perms not at all when the profile is
\* open, or registered with a User viewing, and exactly once otherwise.
C10_LookupOnlyWhenNeeded ==
    CanViewCalled =>
        view.get_perms_calls = (IF ShortCircuit(view.user) THEN 0 ELSE 1)

\* An open profile answered for a viewer who holds the grant, with no lookup.
C10_OpenNoLookup ==
    /\ CanViewCalled
    /\ profile.privacy = "open"
    /\ Granted(view.user)
    /\ view.get_perms_calls = 0

====
